---- MODULE Spec2Model ----
\* bqwrite-test 0.2.2: command line flags, table provisioning, the record
\* generator goroutine and the legacy streaming loop, as one state machine.
\* main() and ExecuteLegacyStream are the revision that go.mod builds
\* (zerolog); table-data.go holds the generator and the record model.
EXTENDS Integers, Sequences, FiniteSets, TLC

\* ---------------------------------------------------------------- bounds
\* Largest accepted -i value the model runs (the code accepts up to 100000000).
MaxCount == 3

\* Iteration count of the one long run, past one cycle of randomNames.
LongCount == 13

\* ----------------------------------------------------- program constants
MinWorkers == 1
MaxWorkers == 100
MinIterations == 1
MaxIterations == 100000000
MinBatchSize == 1
MaxBatchSize == 50000
UuidMultiplier == 42
\* mutant: the channel is made with two slots
ChanCapacityTwo == 1 + 1

ChanCapacity == 1
ExitFailure == 1
ExitSuccess == 0

\* exitCode while the process is still running
Running == -1

Nil == "nil"
NoTable == << >>
NoMetaData == << >>
NoStreamer == [WorkerCount |-> 0, WorkerQueueSize |-> 0, BatchSize |-> 0]
NoRecord == [name |-> "", uuid |-> -1, create_time |-> -1]

randomNames ==
    << "Louis Green", "Skyla Morrison", "Annalise Rosario", "Francisco Cole",
       "Aron Downs", "Alvin Buck", "Fletcher Clarke", "Sophie Salazar",
       "Kaleigh Hughes", "Winston Mason", "Braelyn Ho", "Finley Gibson" >>

tableDataBigQuerySchema ==
    << [Name |-> "name", Type |-> "STRING"],
       [Name |-> "uuid", Type |-> "INTEGER"],
       [Name |-> "create_time", Type |-> "DATETIME"] >>

\* A table that exists before the run may carry any schema.
OtherSchema == << [Name |-> "legacy", Type |-> "STRING"] >>

\* Values time.Now() may return (seconds since the epoch, UTC).
ClockValues == {1640995200}

\* ------------------------------------------------------------ the inputs
ProjectValues == {"", "my-project"}
DatasetValues == {"", "my_dataset"}
WorkerValues == {MinWorkers - 1, MinWorkers, MaxWorkers, MaxWorkers + 1}
IterationValues == (0 .. MaxCount) \cup {MaxIterations + 1}
BatchValues == {MinBatchSize - 1, MinBatchSize, MaxBatchSize, MaxBatchSize + 1}
TableValues == {NoTable, tableDataBigQuerySchema, OtherSchema}

VARIABLES
    flags,          \* the parsed command line: p, d, w, i, b, o
    pc,             \* position of the main goroutine
    exitCode,       \* Running, or the status the process exited with
    ops,            \* history: usage output and external calls, in order
    table,          \* the destination table in BigQuery: NoTable or its schema
    table0,         \* history: the table as it was when the run started
    tableMetaData,  \* CreateBigQueryTable's local: nil or the fetched metadata
    metaOutcome,    \* history: how table.Metadata ended: "ok", "notfound", "error"
    createTable,    \* CreateBigQueryTable's local flag
    err,            \* the error value last returned to the caller
    streamer,       \* the StreamerConfig the streamer was opened with
    ctxDone,        \* ctx.Done() is closed
    cancelAt,       \* history: Len(emitted) when ctx was cancelled, -1 before
    ch,             \* the generator's channel buffer (capacity 1)
    chClosed,       \* close(ch) has run
    closes,         \* history: how many times close(ch) has been called
    gpc,            \* position of the generator goroutine
    gi,             \* the generator's loop variable i
    gdata,          \* the record the generator built and is trying to send
    emitted,        \* history: records sent on ch, in order
    data,           \* the range loop's variable
    count,          \* ExecuteLegacyStream's count
    written,        \* history: records passed to streamer.Write, in order
    results,        \* history: TRUE for each Write that returned nil
    failed,         \* history: the external calls that returned a fatal error
    probe,          \* input of a function applied on its own
    probeOut        \* what the function returned for probe

vars == << flags, pc, exitCode, ops, table, table0, tableMetaData, metaOutcome,
           createTable, err, streamer, ctxDone, cancelAt, ch, chClosed, closes,
           gpc,
           gi, gdata, emitted, data, count, written, results, failed,
           probe, probeOut >>

genVars == << ch, chClosed, closes, gpc, gi, gdata, emitted >>

provVars == << table, tableMetaData, metaOutcome, createTable >>

streamVars == << streamer, data, count, written, results >>

pureVars == << probe, probeOut >>

\* ------------------------------------------------------- pure functions
\* main: the four flag checks that lead to flag.Usage(); os.Exit(1)
FlagsRejected(f) ==
    \/ f.d = ""
    \/ f.w < MinWorkers \/ f.w > MaxWorkers
    \/ f.i < MinIterations \/ f.i > MaxIterations
    \/ f.b < MinBatchSize \/ f.b > MaxBatchSize

CalculateWorkerQueueSize(batchSize) ==
    IF batchSize >= 500 THEN 100
    ELSE IF batchSize >= 200 THEN 50
    ELSE IF batchSize >= 50 THEN 10
    ELSE 1

\* ---- int64: four 16-bit limbs, least significant first, two's complement
LimbBase == 65536

\* int64(i) for the loop variable i >= 0
Int64FromInt(i) == << i % LimbBase, (i \div LimbBase) % LimbBase, 0, 0 >>

\* x * m in int64, m a small non-negative constant: the carry out of the
\* top limb is lost, as Go's wrapping multiplication loses it
Int64MulSmall(x, m) ==
    LET p1 == x[1] * m
        p2 == x[2] * m + (p1 \div LimbBase)
        p3 == x[3] * m + (p2 \div LimbBase)
        p4 == x[4] * m + (p3 \div LimbBase)
    IN  << p1 % LimbBase, p2 % LimbBase, p3 % LimbBase, p4 % LimbBase >>

Int64IsNegative(x) == x[4] >= LimbBase \div 2

\* the integer an int64 stands for, where the checker's integers can hold it
Int64Value(x) ==
    IF Int64IsNegative(x)
    THEN -1 - ((LimbBase - 1 - x[1]) + LimbBase * ((LimbBase - 1 - x[2])
               + LimbBase * ((LimbBase - 1 - x[3]) + LimbBase * (LimbBase - 1 - x[4]))))
    ELSE x[1] + LimbBase * (x[2] + LimbBase * (x[3] + LimbBase * x[4]))

\* mutant: the product is formed in 32 bits and then widened
UuidInt32(i) ==
    LET p1 == (i % LimbBase) * UuidMultiplier
        p2 == ((i \div LimbBase) % LimbBase) * UuidMultiplier + (p1 \div LimbBase)
        ext == IF p2 % LimbBase >= LimbBase \div 2 THEN LimbBase - 1 ELSE 0
    IN  << p1 % LimbBase, p2 % LimbBase, ext, ext >>

\* int64(i) * 42
Uuid(i) == Int64MulSmall(Int64FromInt(i), UuidMultiplier)

NewTableData(name, uuid, create_time) ==
    [name |-> name, uuid |-> uuid, create_time |-> create_time]

\* mutant: the uuid is taken from a loop variable that starts at 1
GenRecordFromOne(i, now) ==
    NewTableData(randomNames[(i % Len(randomNames)) + 1], (i + 1) * UuidMultiplier, now)

\* mutant: the name index is taken modulo one less than the list length
GenRecordShortCycle(i, now) ==
    NewTableData(randomNames[(i % (Len(randomNames) - 1)) + 1], i * UuidMultiplier, now)

\* the record newGenerator builds in iteration i at time now
GenRecord(i, now) ==
    NewTableData(randomNames[(i % Len(randomNames)) + 1], Int64Value(Uuid(i)), now)

\* generation positions at which int64(i) * 42 is applied on its own: the
\* ends of the accepted range and the places where the product crosses a limb
PositionSamples ==
    {0, 1, 2, 1560, 1561, 51130563, 51130564, MaxIterations - 2, MaxIterations - 1}

\* no function is being applied on its own
NoProbe == [fn |-> "none", a |-> 0, b |-> 0, rec |-> NoRecord]

NoProbeOut == [done |-> FALSE]

\* ---- time.Time.Format("2006-01-02 15:04:05") of a UTC time
DecimalDigits == << "0", "1", "2", "3", "4", "5", "6", "7", "8", "9" >>

\* mutant: numbers are written without leading zeros
PadNone(n, width) ==
    LET len == IF n < 10 THEN 1 ELSE IF n < 100 THEN 2 ELSE IF n < 1000 THEN 3 ELSE 4
    IN  [k \in 1 .. len |-> DecimalDigits[((n \div (10 ^ (len - k))) % 10) + 1]]

\* n in decimal, zero-padded to width characters
Pad(n, width) ==
    [k \in 1 .. width |-> DecimalDigits[((n \div (10 ^ (width - k))) % 10) + 1]]

\* the calendar date and clock time, in UTC, of sec seconds after the epoch
CivilFromUnix(sec) ==
    LET days == sec \div 86400
        rem  == sec % 86400
        z    == days + 719468
        era  == z \div 146097
        doe  == z - era * 146097
        yoe  == (doe - (doe \div 1460) + (doe \div 36524) - (doe \div 146096)) \div 365
        doy  == doe - (365 * yoe + (yoe \div 4) - (yoe \div 100))
        mp   == (5 * doy + 2) \div 153
        m    == IF mp < 10 THEN mp + 3 ELSE mp - 9
    IN  [year   |-> yoe + era * 400 + (IF m <= 2 THEN 1 ELSE 0),
         month  |-> m,
         day    |-> doy - ((153 * mp + 2) \div 5) + 1,
         hour   |-> rem \div 3600,
         minute |-> (rem % 3600) \div 60,
         second |-> rem % 60]

\* create_time.Format("2006-01-02 15:04:05"), as a sequence of characters
FormatDateTime(sec) ==
    LET c == CivilFromUnix(sec)
    IN  Pad(c.year, 4) \o << "-" >> \o Pad(c.month, 2) \o << "-" >> \o Pad(c.day, 2)
        \o << " " >> \o Pad(c.hour, 2) \o << ":" >> \o Pad(c.minute, 2)
        \o << ":" >> \o Pad(c.second, 2)

\* bigquery.NoDedupeID
NoDedupeID == "NoDedupeID"

\* tableDataRecord.Save
Save(td) ==
    [row      |-> [name        |-> td.name,
                   uuid        |-> td.uuid,
                   create_time |-> FormatDateTime(td.create_time)],
     insertID |-> NoDedupeID,
     err      |-> Nil]

\* times at which Save is applied on its own: month and year ends, leap
\* days, single-digit fields
TimeSamples ==
    ClockValues \cup {0, 951827696, 1640995199, 1665302826, 1677628799,
                      1709164801, 1709251200}

\* ------------------------------------------------------------ initial states
InitCommon ==
    /\ exitCode = Running
    /\ ops = << >>
    /\ table \in TableValues
    /\ table0 = table
    /\ tableMetaData = NoMetaData
    /\ metaOutcome = Nil
    /\ createTable = FALSE
    /\ err = Nil
    /\ streamer = NoStreamer
    /\ ctxDone = FALSE
    /\ cancelAt = -1
    /\ ch = << >>
    /\ chClosed = FALSE
    /\ closes = 0
    /\ gpc = "unstarted"
    /\ gi = 0
    /\ gdata = NoRecord
    /\ emitted = << >>
    /\ data = NoRecord
    /\ count = 0
    /\ written = << >>
    /\ results = << >>
    /\ failed = { }

\* the process after flag.Parse()
Init ==
    /\ flags \in [p : ProjectValues, d : DatasetValues, w : WorkerValues,
                  i : IterationValues, b : BatchValues, o : BOOLEAN]
    /\ pc = "flags"
    /\ InitCommon
    /\ probe = NoProbe
    /\ probeOut = NoProbeOut

\* ------------------------------------------------------------------ main
Exit(code) ==
    /\ exitCode' = code
    /\ pc' = "exited"

\* main: flag validation
ValidateFlags ==
    /\ pc = "flags"
    /\ IF FlagsRejected(flags)
       THEN /\ ops' = Append(ops, "Usage")
            /\ Exit(ExitFailure)
       ELSE /\ pc' = "newClient"
            /\ UNCHANGED << ops, exitCode >>
    /\ UNCHANGED << flags, pureVars, failed, table0, err, ctxDone, cancelAt >>
    /\ UNCHANGED << provVars, streamVars, genVars >>

\* main: bigquery.NewClient
NewClient ==
    /\ pc = "newClient"
    /\ ops' = Append(ops, "NewClient")
    /\ \E ok \in BOOLEAN :
         IF ok THEN pc' = "metadata" /\ UNCHANGED << exitCode, failed >>
               ELSE Exit(ExitFailure) /\ failed' = failed \cup {"NewClient"}
    /\ UNCHANGED << flags, pureVars, table0, err, ctxDone, cancelAt >>
    /\ UNCHANGED << provVars, streamVars, genVars >>

\* --------------------------------------------------- CreateBigQueryTable
\* what table.Metadata can answer for the table as it is
MetadataOutcomes(t) ==
    IF t = NoTable THEN {"notfound", "error"} ELSE {"ok", "error"}

\* mutant: an existing table is deleted whether or not -o was given
NeedsDeleteAlways(overwrite, metaData) == metaData # NoMetaData

\* if overwrite && tableMetaData != nil
NeedsDelete(overwrite, metaData) == overwrite /\ metaData # NoMetaData

\* mutant: every error of the fetch is taken for not found
TableMetadataAnyError ==
    /\ pc = "metadata"
    /\ ops' = Append(ops, "Metadata")
    /\ \E outcome \in MetadataOutcomes(table) :
         /\ metaOutcome' = outcome
         /\ tableMetaData' = IF outcome = "ok" THEN table ELSE NoMetaData
         /\ createTable' = (outcome # "ok")
         /\ err' = Nil
         /\ failed' = IF outcome = "error" THEN failed \cup {"Metadata"} ELSE failed
         /\ pc' = IF NeedsDelete(flags.o, tableMetaData')
                  THEN "delete" ELSE "ifCreateTable"
    /\ UNCHANGED << flags, pureVars, exitCode, table, table0, ctxDone, cancelAt >>
    /\ UNCHANGED << streamVars, genVars >>

\* table.Metadata and the not-found test on its error
TableMetadata ==
    /\ pc = "metadata"
    /\ ops' = Append(ops, "Metadata")
    /\ \E outcome \in MetadataOutcomes(table) :
         /\ metaOutcome' = outcome
         /\ tableMetaData' = IF outcome = "ok" THEN table ELSE NoMetaData
         /\ createTable' = (outcome = "notfound")
         /\ IF outcome = "error"
            THEN /\ err' = "metadata error"
                 /\ failed' = failed \cup {"Metadata"}
                 /\ pc' = "createTableReturned"
            ELSE /\ err' = Nil
                 /\ UNCHANGED failed
                 /\ pc' = IF NeedsDelete(flags.o, tableMetaData')
                          THEN "delete" ELSE "ifCreateTable"
    /\ UNCHANGED << flags, pureVars, exitCode, table, table0, ctxDone, cancelAt >>
    /\ UNCHANGED << streamVars, genVars >>

\* mutant: the error of table.Delete is dropped and the run goes on
TableDeleteIgnoreError ==
    /\ pc = "delete"
    /\ ops' = Append(ops, "Delete")
    /\ \E ok \in BOOLEAN :
         IF ok THEN /\ table' = NoTable
                    /\ UNCHANGED failed
               ELSE /\ failed' = failed \cup {"Delete"}
                    /\ UNCHANGED table
    /\ pc' = "sleepAfterDelete"
    /\ UNCHANGED << flags, pureVars, exitCode, table0, tableMetaData,
                    metaOutcome, createTable, err, ctxDone, cancelAt >>
    /\ UNCHANGED << streamVars, genVars >>

\* table.Delete; a failure logs and calls os.Exit(1)
TableDelete ==
    /\ pc = "delete"
    /\ ops' = Append(ops, "Delete")
    /\ \E ok \in BOOLEAN :
         IF ok THEN /\ table' = NoTable
                    /\ pc' = "sleepAfterDelete"
                    /\ UNCHANGED << exitCode, failed >>
               ELSE /\ Exit(ExitFailure)
                    /\ failed' = failed \cup {"Delete"}
                    /\ UNCHANGED table
    /\ UNCHANGED << flags, pureVars, table0, tableMetaData, metaOutcome, createTable,
                    err, ctxDone, cancelAt >>
    /\ UNCHANGED << streamVars, genVars >>

\* mutant: no wait between the delete and the create
SleepAfterDeleteSkipped ==
    /\ pc = "sleepAfterDelete"
    /\ createTable' = TRUE
    /\ pc' = "ifCreateTable"
    /\ UNCHANGED << flags, pureVars, failed, exitCode, ops, table, table0, tableMetaData,
                    metaOutcome, err, ctxDone, cancelAt >>
    /\ UNCHANGED << streamVars, genVars >>

\* time.Sleep(10 * time.Minute) after the delete; createTable = true
SleepAfterDelete ==
    /\ pc = "sleepAfterDelete"
    /\ ops' = Append(ops, "Sleep")
    /\ createTable' = TRUE
    /\ pc' = "ifCreateTable"
    /\ UNCHANGED << flags, pureVars, failed, exitCode, table, table0, tableMetaData, metaOutcome,
                    err, ctxDone, cancelAt >>
    /\ UNCHANGED << streamVars, genVars >>

\* if createTable is false: return nil
SkipCreate ==
    /\ pc = "ifCreateTable"
    /\ ~createTable
    /\ err' = Nil
    /\ pc' = "createTableReturned"
    /\ UNCHANGED << flags, pureVars, failed, exitCode, ops, table0, ctxDone, cancelAt >>
    /\ UNCHANGED << provVars, streamVars, genVars >>

\* table.Create with the fixed schema; a failure returns the error
TableCreate ==
    /\ pc = "ifCreateTable"
    /\ createTable
    /\ ops' = Append(ops, "Create")
    /\ \E ok \in BOOLEAN :
         IF ok THEN /\ table' = tableDataBigQuerySchema
                    /\ pc' = "sleepAfterCreate"
                    /\ UNCHANGED << err, failed >>
               ELSE /\ err' = "create error"
                    /\ failed' = failed \cup {"Create"}
                    /\ pc' = "createTableReturned"
                    /\ UNCHANGED table
    /\ UNCHANGED << flags, pureVars, exitCode, table0, tableMetaData, metaOutcome,
                    createTable, ctxDone, cancelAt >>
    /\ UNCHANGED << streamVars, genVars >>

\* mutant: return nil right after the create, without the wait
SleepAfterCreateSkipped ==
    /\ pc = "sleepAfterCreate"
    /\ err' = Nil
    /\ pc' = "createTableReturned"
    /\ UNCHANGED << flags, pureVars, failed, exitCode, ops, table, table0, tableMetaData,
                    metaOutcome, createTable, ctxDone, cancelAt >>
    /\ UNCHANGED << streamVars, genVars >>

\* time.Sleep(10 * time.Minute) after the create; return nil
SleepAfterCreate ==
    /\ pc = "sleepAfterCreate"
    /\ ops' = Append(ops, "Sleep")
    /\ err' = Nil
    /\ pc' = "createTableReturned"
    /\ UNCHANGED << flags, pureVars, failed, exitCode, table, table0, tableMetaData, metaOutcome,
                    createTable, ctxDone, cancelAt >>
    /\ UNCHANGED << streamVars, genVars >>

\* mutant: main goes on to the stream whatever CreateBigQueryTable returned
AfterCreateBigQueryTableUnchecked ==
    /\ pc = "createTableReturned"
    /\ pc' = "newStreamer"
    /\ UNCHANGED << flags, pureVars, failed, exitCode, ops, table0, err,
                    ctxDone, cancelAt >>
    /\ UNCHANGED << provVars, streamVars, genVars >>

\* main: the error check after CreateBigQueryTable
AfterCreateBigQueryTable ==
    /\ pc = "createTableReturned"
    /\ IF err # Nil THEN Exit(ExitFailure)
                    ELSE pc' = "newStreamer" /\ UNCHANGED exitCode
    /\ UNCHANGED << flags, pureVars, failed, ops, table0, err, ctxDone, cancelAt >>
    /\ UNCHANGED << provVars, streamVars, genVars >>

CreateBigQueryTable ==
    \/ TableMetadata
    \/ TableDelete
    \/ SleepAfterDelete
    \/ SkipCreate
    \/ TableCreate
    \/ SleepAfterCreate

\* ----------------------------------------------------------- newGenerator
\* mutant: the loop runs one iteration too many
LoopContinuesInclusive(i, iterations) == i <= iterations

\* the loop test of for i := 0; i < iterations; i++
LoopContinues(i, iterations) == i < iterations

\* the goroutine and the process it runs in are alive
GenAlive == exitCode = Running

\* for i := 0; i < iterations; i++ { data := gen(...) ; on exit: defer close(ch)
GenLoop ==
    /\ GenAlive
    /\ gpc = "loop"
    /\ IF LoopContinues(gi, flags.i)
       THEN /\ \E now \in ClockValues : gdata' = GenRecord(gi, now)
            /\ gpc' = "select"
            /\ UNCHANGED << chClosed, closes >>
       ELSE /\ gpc' = "done"
            /\ chClosed' = TRUE
            /\ closes' = closes + 1
            /\ UNCHANGED gdata
    /\ UNCHANGED << ch, gi, emitted, ctxDone, cancelAt, table0 >>
    /\ UNCHANGED << flags, pureVars, failed, pc, exitCode, ops, err >>
    /\ UNCHANGED << provVars, streamVars >>

\* select: case ch <- data
GenSend ==
    /\ GenAlive
    /\ gpc = "select"
    /\ Len(ch) < ChanCapacity
    /\ ch' = Append(ch, gdata)
    /\ emitted' = Append(emitted, gdata)
    /\ gi' = gi + 1
    /\ gpc' = "loop"
    /\ UNCHANGED << chClosed, closes, gdata, ctxDone, cancelAt, table0 >>
    /\ UNCHANGED << flags, pureVars, failed, pc, exitCode, ops, err >>
    /\ UNCHANGED << provVars, streamVars >>

\* mutant: the goroutine returns on cancellation without closing ch
GenCtxDoneNoClose ==
    /\ GenAlive
    /\ gpc = "select"
    /\ ctxDone
    /\ gpc' = "done"
    /\ UNCHANGED << flags, pureVars, failed, pc, exitCode, ops, err >>
    /\ UNCHANGED << ch, chClosed, closes, gi, gdata, emitted, ctxDone, cancelAt, table0 >>
    /\ UNCHANGED << provVars, streamVars >>

\* mutant: the Done case closes ch itself and the deferred close runs as well
GenCtxDoneCloseTwice ==
    /\ GenAlive
    /\ gpc = "select"
    /\ ctxDone
    /\ gpc' = "done"
    /\ chClosed' = TRUE
    /\ closes' = closes + 1 + 1
    /\ UNCHANGED << ch, gi, gdata, emitted, ctxDone, cancelAt, table0 >>
    /\ UNCHANGED << flags, pureVars, failed, pc, exitCode, ops, err >>
    /\ UNCHANGED << provVars, streamVars >>

\* select: case <-ctx.Done(): return, and the deferred close(ch)
GenCtxDone ==
    /\ GenAlive
    /\ gpc = "select"
    /\ ctxDone
    /\ gpc' = "done"
    /\ chClosed' = TRUE
    /\ closes' = closes + 1
    /\ UNCHANGED << ch, gi, gdata, emitted, ctxDone, cancelAt, table0 >>
    /\ UNCHANGED << flags, pureVars, failed, pc, exitCode, ops, err >>
    /\ UNCHANGED << provVars, streamVars >>

Generator ==
    \/ GenLoop
    \/ GenSend
    \/ GenCtxDone

\* ---------------------------------------------------- ExecuteLegacyStream
\* bqwriter.NewStreamer; a failure returns the error before the defer
NewStreamer ==
    /\ pc = "newStreamer"
    /\ ops' = Append(ops, "NewStreamer")
    /\ \E ok \in BOOLEAN :
         IF ok THEN /\ streamer' = [WorkerCount |-> flags.w,
                                    WorkerQueueSize |-> CalculateWorkerQueueSize(flags.b),
                                    BatchSize |-> flags.b]
                    /\ pc' = "newGenerator"
                    /\ UNCHANGED << err, failed >>
               ELSE /\ err' = "streamer error"
                    /\ failed' = failed \cup {"NewStreamer"}
                    /\ pc' = "streamReturned"
                    /\ UNCHANGED streamer
    /\ UNCHANGED << flags, pureVars, exitCode, table0, ctxDone, cancelAt, data, count,
                    written, results >>
    /\ UNCHANGED << provVars, genVars >>

\* count := 0; newGenerator: make(chan, 1) and go func()
StartGenerator ==
    /\ pc = "newGenerator"
    /\ count' = 0
    /\ ch' = << >>
    /\ chClosed' = FALSE
    /\ closes' = 0
    /\ gi' = 0
    /\ gpc' = "loop"
    /\ pc' = "range"
    /\ UNCHANGED << flags, pureVars, failed, exitCode, ops, table0, err, ctxDone, cancelAt,
                    gdata, emitted, streamer, data, written, results >>
    /\ UNCHANGED provVars

\* for data := range ch: a record is received
RangeReceive ==
    /\ pc = "range"
    /\ Len(ch) > 0
    /\ data' = Head(ch)
    /\ ch' = Tail(ch)
    /\ pc' = "write"
    /\ UNCHANGED << flags, pureVars, failed, exitCode, ops, table0, err, ctxDone, cancelAt,
                    chClosed, closes, gpc, gi, gdata, emitted, streamer, count,
                    written, results >>
    /\ UNCHANGED provVars

\* for data := range ch: the channel is closed and empty; return nil
RangeClosed ==
    /\ pc = "range"
    /\ Len(ch) = 0
    /\ chClosed
    /\ err' = Nil
    /\ pc' = "deferClose"
    /\ UNCHANGED << flags, pureVars, failed, exitCode, ops, table0, ctxDone, cancelAt >>
    /\ UNCHANGED << provVars, streamVars, genVars >>

\* mutant: a failed write is skipped and the loop goes on
WriteReturnContinue(ok) ==
    /\ count' = IF ok THEN count + 1 ELSE count
    /\ pc' = "range"
    /\ UNCHANGED << err, exitCode >>

\* mutant: a failed write ends the process with os.Exit(1) inside the loop
WriteReturnExit(ok) ==
    IF ok THEN /\ count' = count + 1
               /\ pc' = "range"
               /\ UNCHANGED << err, exitCode >>
          ELSE /\ err' = "write error"
               /\ Exit(ExitFailure)
               /\ UNCHANGED count

\* mutant: count++ runs before the error check
WriteReturnCountFirst(ok) ==
    /\ count' = count + 1
    /\ IF ok THEN /\ pc' = "range"
                  /\ UNCHANGED << err, exitCode >>
             ELSE /\ err' = "write error"
                  /\ pc' = "deferClose"
                  /\ UNCHANGED exitCode

\* if err != nil { return err }; count++
WriteReturn(ok) ==
    IF ok THEN /\ count' = count + 1
               /\ pc' = "range"
               /\ UNCHANGED << err, exitCode >>
          ELSE /\ err' = "write error"
               /\ pc' = "deferClose"
               /\ UNCHANGED << count, exitCode >>

\* err = streamer.Write(data) in the range loop
StreamerWrite ==
    /\ pc = "write"
    /\ ops' = Append(ops, "Write")
    /\ written' = Append(written, data)
    /\ \E ok \in BOOLEAN :
         /\ results' = Append(results, ok)
         /\ failed' = IF ok THEN failed ELSE failed \cup {"Write"}
         /\ WriteReturn(ok)
    /\ UNCHANGED << flags, pureVars, table0, ctxDone, cancelAt, streamer, data >>
    /\ UNCHANGED << provVars, genVars >>

\* defer streamer.Close()
StreamerClose ==
    /\ pc = "deferClose"
    /\ ops' = Append(ops, "StreamerClose")
    /\ pc' = "streamReturned"
    /\ UNCHANGED << flags, pureVars, failed, exitCode, table0, err, ctxDone, cancelAt >>
    /\ UNCHANGED << provVars, streamVars, genVars >>

ExecuteLegacyStream ==
    \/ NewStreamer
    \/ StartGenerator
    \/ RangeReceive
    \/ RangeClosed
    \/ StreamerWrite
    \/ StreamerClose

\* mutant: the error is logged but main falls through to its normal end
AfterExecuteLegacyStreamLogOnly ==
    /\ pc = "streamReturned"
    /\ ops' = Append(ops, "ClientClose")
    /\ Exit(ExitSuccess)
    /\ UNCHANGED << flags, pureVars, failed, table0, err, ctxDone, cancelAt >>
    /\ UNCHANGED << provVars, streamVars, genVars >>

\* main: the error check after ExecuteLegacyStream; on success main returns
\* and the deferred client.Close() runs
AfterExecuteLegacyStream ==
    /\ pc = "streamReturned"
    /\ IF err # Nil
       THEN /\ Exit(ExitFailure)
            /\ UNCHANGED ops
       ELSE /\ ops' = Append(ops, "ClientClose")
            /\ Exit(ExitSuccess)
    /\ UNCHANGED << flags, pureVars, failed, table0, err, ctxDone, cancelAt >>
    /\ UNCHANGED << provVars, streamVars, genVars >>

\* ctx is cancelled by whoever holds its cancel function
CancelCtx ==
    /\ ~ctxDone
    /\ ctxDone' = TRUE
    /\ cancelAt' = Len(emitted)
    /\ UNCHANGED << flags, pureVars, failed, pc, exitCode, ops, table0, err >>
    /\ UNCHANGED << provVars, streamVars, genVars >>

\* --------------------------------------------------------- specifications
\* the process: main with ctx := context.Background()
Next ==
    \/ ValidateFlags
    \/ NewClient
    \/ CreateBigQueryTable
    \/ AfterCreateBigQueryTable
    \/ ExecuteLegacyStream
    \/ GenLoop
    \/ GenSend
    \/ AfterExecuteLegacyStream

Spec == Init /\ [][Next]_vars

\* every runnable goroutine is scheduled and every external call returns
FairSpec == Spec /\ WF_vars(Next)

\* ExecuteLegacyStream called on its own, with any iteration count and a
\* context its caller may cancel at any time
InitStream ==
    /\ flags \in [p : {"my-project"}, d : {"my_dataset"},
                  w : {MinWorkers, MaxWorkers}, i : 0 .. MaxCount,
                  b : {MinBatchSize, MaxBatchSize}, o : {FALSE}]
    /\ pc = "newStreamer"
    /\ InitCommon
    /\ probe = NoProbe
    /\ probeOut = NoProbeOut

NextStream ==
    \/ ExecuteLegacyStream
    \/ Generator
    \/ CancelCtx

SpecStream == InitStream /\ [][NextStream]_vars

\* the two goroutines are scheduled; nothing obliges the caller to cancel
FairStream ==
    SpecStream /\ WF_vars(ExecuteLegacyStream) /\ WF_vars(Generator)

\* ExecuteLegacyStream called with an iteration count longer than randomNames
InitLong ==
    /\ flags = [p |-> "my-project", d |-> "my_dataset", w |-> MinWorkers,
                i |-> LongCount, b |-> MinBatchSize, o |-> FALSE]
    /\ pc = "newStreamer"
    /\ InitCommon
    /\ table = tableDataBigQuerySchema
    /\ probe = NoProbe
    /\ probeOut = NoProbeOut

SpecLong == InitLong /\ [][NextStream]_vars

\* ---- the pure functions applied on their own
UuidInputs ==
    {[fn |-> "Uuid", a |-> a, b |-> b, rec |-> NoRecord] :
        a \in PositionSamples, b \in PositionSamples}

SaveInputs ==
    {[fn |-> "Save", a |-> 0, b |-> 0, rec |-> GenRecord(i, now)] :
        i \in {0, 1, 11, 12}, now \in TimeSamples}

ProbeInputs == UuidInputs \cup SaveInputs

InitPure ==
    /\ flags = [p |-> "my-project", d |-> "my_dataset", w |-> MinWorkers,
                i |-> MaxIterations, b |-> MinBatchSize, o |-> FALSE]
    /\ pc = "pure"
    /\ InitCommon
    /\ table = tableDataBigQuerySchema
    /\ probe \in ProbeInputs
    /\ probeOut = NoProbeOut

\* the uuid argument of gen(...) at two positions of one run
ApplyUuid ==
    /\ probe.fn = "Uuid"
    /\ ~probeOut.done
    /\ probeOut' = [done |-> TRUE, ua |-> Uuid(probe.a), ub |-> Uuid(probe.b)]
    /\ UNCHANGED << flags, pc, exitCode, ops, err, ctxDone, cancelAt, table0,
                    failed, probe >>
    /\ UNCHANGED << provVars, streamVars, genVars >>

\* Save called on one record
ApplySave ==
    /\ probe.fn = "Save"
    /\ ~probeOut.done
    /\ probeOut' = [done |-> TRUE, res |-> Save(probe.rec)]
    /\ UNCHANGED << flags, pc, exitCode, ops, err, ctxDone, cancelAt, table0,
                    failed, probe >>
    /\ UNCHANGED << provVars, streamVars, genVars >>

NextPure ==
    \/ ApplyUuid
    \/ ApplySave

SpecPure == InitPure /\ [][NextPure]_vars

\* ------------------------------------------------------------ properties
IsPrefix(s, t) ==
    /\ Len(s) <= Len(t)
    /\ \A k \in 1 .. Len(s) : s[k] = t[k]

WriteFailed == \E k \in 1 .. Len(results) : ~results[k]

\* the k-th record of a sequence is the one generated at position k - 1
InGenerationOrder(recs) ==
    \A k \in 1 .. Len(recs) :
        /\ recs[k].uuid = (k - 1) * 42
        /\ recs[k].name = randomNames[((k - 1) % 12) + 1]

C1_Emitted ==
    /\ Len(emitted) <= flags.i
    /\ InGenerationOrder(emitted)
    /\ (chClosed /\ ~ctxDone) => Len(emitted) = flags.i
    /\ (gpc = "done") => chClosed
    /\ (gpc = "done" /\ flags.i = 0) => emitted = << >>

\* C1: without cancellation and with a consumer that keeps receiving, the
\* generator emits exactly flags.i records, the k-th being the record of
\* index k - 1, and then closes ch; with flags.i = 0 it closes ch having
\* emitted nothing. Once started it always gets to close ch unless the
\* consumer stopped receiving after a failed write.
C1_GeneratorEmitsCount ==
    /\ [] C1_Emitted
    /\ (gpc = "loop") ~> (chClosed \/ WriteFailed)

C1_Witness ==
    /\ chClosed
    /\ ~ctxDone
    /\ flags.i >= 2
    /\ Len(emitted) = flags.i

\* C2: once ctx is cancelled the generator sends at most one more record,
\* and every record it sends has an index in [0, flags.i).
C2_CancellationBound ==
    /\ (cancelAt >= 0) => (Len(emitted) - cancelAt <= 1)
    /\ \A k \in 1 .. Len(emitted) :
           \E i \in 0 .. flags.i - 1 : emitted[k].uuid = i * 42

\* C3: a failed Write is the last Write of the run: the records written are
\* those of index 0..k, the first k writes succeeded, count stays k, and the
\* process exits with a failure status.
C3_AbortOnFirstWriteFailure ==
    /\ Len(written) = Len(results)
    /\ InGenerationOrder(written)
    /\ \A k \in 1 .. Len(results) : ~results[k] => k = Len(results)
    /\ WriteFailed =>
          /\ pc \in {"deferClose", "streamReturned", "exited"}
          /\ count = Len(results) - 1
          /\ err = "write error"
          /\ (pc = "exited") => exitCode = ExitFailure

C3_Witness ==
    /\ pc = "exited"
    /\ exitCode = ExitFailure
    /\ flags.i >= 3
    /\ Len(results) = 2
    /\ results[1]
    /\ ~results[2]

ExpectedIds(n) == [k \in 1 .. n |-> (k - 1) * 42]

IdsOf(recs) == [k \in 1 .. Len(recs) |-> recs[k].uuid]

C4_Success ==
    (pc = "exited" /\ exitCode = ExitSuccess) =>
        /\ count = flags.i
        /\ IdsOf(written) = ExpectedIds(flags.i)

\* C4: once the table is provisioned the run terminates, and unless the
\* streamer could not be opened or a write failed it exits with status 0
\* having counted flags.i records and written the ids 0, 42, .., in order.
C4_EndToEndSuccess ==
    /\ [] C4_Success
    /\ (pc = "newStreamer") ~>
          (pc = "exited" /\ (exitCode = ExitSuccess \/ err # Nil))

C4_Witness ==
    /\ pc = "exited"
    /\ exitCode = ExitSuccess
    /\ flags.i = 3
    /\ flags.b = 1
    /\ IdsOf(written) = << 0, 42, 84 >>

\* the calls CreateBigQueryTable made, in order
ProvOps ==
    SelectSeq(ops, LAMBDA o : o \in {"Metadata", "Delete", "Sleep", "Create"})

\* CreateBigQueryTable has just returned nil
ProvisionedOk == pc = "createTableReturned" /\ err = Nil

OverwriteSteps == << "Metadata", "Delete", "Sleep", "Create", "Sleep" >>

\* C5: the table exists and -o is given: the calls made are a prefix of
\* delete, wait, create, wait (after the fetch), and a successful return has
\* made exactly those, leaving a table with the fixed schema.
C5_OverwriteExisting ==
    (metaOutcome = "ok" /\ flags.o) =>
        /\ IsPrefix(ProvOps, OverwriteSteps)
        /\ ProvisionedOk =>
              /\ ProvOps = OverwriteSteps
              /\ table = tableDataBigQuerySchema

C5_Witness ==
    /\ ProvisionedOk
    /\ metaOutcome = "ok"
    /\ flags.o
    /\ table0 = OtherSchema
    /\ ProvOps = OverwriteSteps

CreateSteps == << "Metadata", "Create", "Sleep" >>

\* C6: the fetch answered not found: no delete is made for either value of
\* -o, and a successful return has made exactly one create followed by
\* exactly one wait, leaving a table with the fixed schema.
C6_CreateMissing ==
    (metaOutcome = "notfound") =>
        /\ IsPrefix(ProvOps, CreateSteps)
        /\ ProvisionedOk =>
              /\ ProvOps = CreateSteps
              /\ table = tableDataBigQuerySchema

C6_Witness ==
    /\ ProvisionedOk
    /\ metaOutcome = "notfound"
    /\ flags.o
    /\ ProvOps = CreateSteps

\* C7: the table exists and -o is not given: the fetch is the only call
\* CreateBigQueryTable makes, it returns nil and the table is as it was.
C7_ExistingNoOverwrite ==
    (metaOutcome = "ok" /\ ~flags.o) =>
        /\ ProvOps = << "Metadata" >>
        /\ table = table0
        /\ (pc = "createTableReturned") => err = Nil
        /\ pc \notin {"delete", "sleepAfterDelete", "sleepAfterCreate"}

C7_Witness ==
    /\ ProvisionedOk
    /\ metaOutcome = "ok"
    /\ ~flags.o
    /\ table = OtherSchema

\* the flags the usage text calls required or bounds
ArgsInvalid ==
    \/ flags.p = ""
    \/ flags.d = ""
    \/ flags.w \notin 1 .. 100
    \/ flags.i \notin 1 .. 100000000
    \/ flags.b \notin 1 .. 50000

NetworkOps ==
    {"NewClient", "Metadata", "Delete", "Create", "NewStreamer", "Write",
     "StreamerClose", "ClientClose"}

\* C8: with a required flag missing or a numeric flag out of range the
\* process prints the usage text and exits non-zero, and makes no network call.
C8_ValidationPrecedesIO ==
    ArgsInvalid =>
        /\ \A k \in 1 .. Len(ops) : ops[k] \notin NetworkOps
        /\ (pc # "flags") =>
              /\ pc = "exited"
              /\ exitCode # ExitSuccess
              /\ ops = << "Usage" >>

StreamerCloses == Len(SelectSeq(ops, LAMBDA o : o = "StreamerClose"))

StreamerOpened == streamer # NoStreamer

\* C9: streamer.Close() is called at most once, never without an open
\* streamer, and exactly once by the time ExecuteLegacyStream has returned
\* with the streamer open, after a full drain and after a failed write alike.
C9_ConnectionRelease ==
    /\ StreamerCloses <= 1
    /\ ~StreamerOpened => StreamerCloses = 0
    /\ (StreamerOpened /\ pc \in {"streamReturned", "exited"}) =>
          StreamerCloses = 1

C9_Witness ==
    /\ pc = "exited"
    /\ StreamerOpened
    /\ WriteFailed
    /\ StreamerCloses = 1

\* C10: ExecuteLegacyStream returns nil only with count = flags.i, and
\* returns an error in every other case.
C10_NoPartialSuccess ==
    (pc = "streamReturned") =>
        /\ (err = Nil) => count = flags.i
        /\ (count # flags.i) => err # Nil

CallsMade == {ops[k] : k \in 1 .. Len(ops)}

\* every call the run needs was made and none returned a fatal error
AllSucceeded ==
    /\ {"NewClient", "Metadata", "NewStreamer"} \subseteq CallsMade
    /\ failed = { }
    /\ \A k \in 1 .. Len(results) : results[k]

\* C11: the process exits with status 0 exactly when the client, the table
\* provisioning, the streamer and every write succeeded (a not-found answer
\* of the metadata fetch is the handled outcome, not a failure); any failed
\* call gives a non-zero status.
C11_ExitStatus ==
    (pc = "exited") =>
        /\ exitCode \in {ExitSuccess, ExitFailure}
        /\ (exitCode = ExitSuccess) <=> AllSucceeded
        /\ (failed # { }) => exitCode # ExitSuccess

C11_Witness ==
    /\ pc = "exited"
    /\ exitCode = ExitSuccess
    /\ metaOutcome = "notfound"
    /\ Len(results) = 3

\* the record generated at position i, as the claim states it
HasContentOf(rec, i) ==
    /\ rec.uuid = i * 42
    /\ rec.name = randomNames[(i % 12) + 1]

\* C12: every record the generator builds, sends, or the loop receives and
\* writes is the record of its generation position i: uuid = i * 42 and
\* name = randomNames[i mod 12]; position 12 carries the first name again.
C12_RecordContent ==
    /\ Len(randomNames) = 12
    /\ \A k \in 1 .. Len(emitted) : HasContentOf(emitted[k], k - 1)
    /\ \A k \in 1 .. Len(written) : HasContentOf(written[k], k - 1)
    /\ (gpc = "select") => HasContentOf(gdata, gi)
    /\ (Len(emitted) >= 13) =>
          /\ emitted[13].name = "Louis Green"
          /\ emitted[13].uuid = 504
          /\ emitted[12].name = "Finley Gibson"

C12_Witness ==
    /\ Len(emitted) = 13
    /\ Len(written) = 13
    /\ written[13].name = written[1].name
    /\ written[13].uuid = 504

\* signed order of two int64 values
Int64Less(x, y) ==
    IF (x[4] >= 32768) # (y[4] >= 32768)
    THEN x[4] >= 32768
    ELSE \E k \in 1 .. 4 :
            /\ x[k] < y[k]
            /\ \A j \in (k + 1) .. 4 : x[j] = y[j]

\* unsigned x divided by a small m: quotient limbs and remainder
Int64DivSmall(x, m) ==
    LET c4 == x[4]
        c3 == (c4 % m) * 65536 + x[3]
        c2 == (c3 % m) * 65536 + x[2]
        c1 == (c2 % m) * 65536 + x[1]
    IN  [q |-> << c1 \div m, c2 \div m, c3 \div m, c4 \div m >>, r |-> c1 % m]

\* x is i * 42 with no bit lost and the sign bit clear
IsExactProduct(x, i) ==
    LET d == Int64DivSmall(x, 42)
    IN  /\ x[4] < 32768
        /\ d.r = 0
        /\ d.q[3] = 0 /\ d.q[4] = 0
        /\ d.q[1] + 65536 * d.q[2] = i

\* C13: at every two positions a, b of a run of an accepted length,
\* int64(a) * 42 is the exact product (nothing wraps, the sign bit stays
\* clear), and a < b gives uuid(a) < uuid(b), so no two ids are equal.
C13_UuidUnique ==
    (probe.fn = "Uuid" /\ probeOut.done) =>
        /\ probe.a \in 0 .. 99999999
        /\ IsExactProduct(probeOut.ua, probe.a)
        /\ IsExactProduct(probeOut.ub, probe.b)
        /\ (probe.a < probe.b) => Int64Less(probeOut.ua, probeOut.ub)
        /\ (probe.a # probe.b) => probeOut.ua # probeOut.ub

C13_Witness ==
    /\ probe.fn = "Uuid"
    /\ probeOut.done
    /\ probe.a = 51130563
    /\ probe.b = 99999999
    /\ probeOut.ub = << 59862, 64086, 0, 0 >>

\* the text is YYYY-MM-DD HH:MM:SS: 19 characters, digits and separators
IsDateTimeText(txt) ==
    /\ Len(txt) = 19
    /\ txt[5] = "-" /\ txt[8] = "-" /\ txt[11] = " "
    /\ txt[14] = ":" /\ txt[17] = ":"
    /\ \A k \in (1 .. 19) \ {5, 8, 11, 14, 17} :
           \E d \in 1 .. 10 : txt[k] = DecimalDigits[d]

DigitAt(txt, k) == CHOOSE d \in 0 .. 9 : DecimalDigits[d + 1] = txt[k]

NumberAt(txt, from, to) ==
    LET RECURSIVE val(_)
        val(k) == IF k < from THEN 0 ELSE 10 * val(k - 1) + DigitAt(txt, k)
    IN  val(to)

\* seconds after the epoch of the UTC date and time a text spells out
UnixFromText(txt) ==
    LET y0  == NumberAt(txt, 1, 4)
        m   == NumberAt(txt, 6, 7)
        d   == NumberAt(txt, 9, 10)
        y   == IF m <= 2 THEN y0 - 1 ELSE y0
        era == y \div 400
        yoe == y - era * 400
        mp  == IF m > 2 THEN m - 3 ELSE m + 9
        doy == ((153 * mp + 2) \div 5) + d - 1
        doe == yoe * 365 + (yoe \div 4) - (yoe \div 100) + doy
    IN  (era * 146097 + doe - 719468) * 86400
        + NumberAt(txt, 12, 13) * 3600 + NumberAt(txt, 15, 16) * 60
        + NumberAt(txt, 18, 19)

\* C14: Save returns a row whose keys are exactly the three column names of
\* tableDataBigQuerySchema (name, uuid, create_time in the code), each with
\* the record's own value, the time as a YYYY-MM-DD HH:MM:SS text that reads
\* back as the record's time, together with NoDedupeID and a nil error.
C14_SaveShape ==
    (probe.fn = "Save" /\ probeOut.done) =>
        LET r == probeOut.res
        IN  /\ DOMAIN r.row = {tableDataBigQuerySchema[k].Name : k \in 1 .. 3}
            /\ Cardinality(DOMAIN r.row) = 3
            /\ r.row.name = probe.rec.name
            /\ r.row.uuid = probe.rec.uuid
            /\ IsDateTimeText(r.row.create_time)
            /\ UnixFromText(r.row.create_time) = probe.rec.create_time
            /\ r.insertID = "NoDedupeID"
            /\ r.err = Nil

C14_Witness ==
    /\ probe.fn = "Save"
    /\ probeOut.done
    /\ probe.rec.create_time = 1665302826
    /\ probeOut.res.row.create_time =
          << "2", "0", "2", "2", "-", "1", "0", "-", "0", "9", " ",
             "0", "8", ":", "0", "7", ":", "0", "6" >>
    /\ probeOut.res.row.name = "Louis Green"

\* C15: after a failed Write the cancellation signal has been fired by the
\* time ExecuteLegacyStream has returned, and the generator has returned and
\* closed ch by the time the process ends.
C15_ProducerStopsOnWriteError ==
    WriteFailed =>
        /\ (pc \in {"streamReturned", "exited"}) => ctxDone
        /\ (pc = "exited") => (gpc = "done" /\ chClosed)

\* C16: a failed table.Delete ends the process at once with a failure
\* status: no wait, no create, no streamer and no write follow it.
C16_DeleteFailureFatal ==
    ("Delete" \in failed) =>
        /\ pc = "exited"
        /\ exitCode = ExitFailure
        /\ ops = << "NewClient", "Metadata", "Delete" >>
        /\ streamer = NoStreamer
        /\ written = << >>
        /\ table = table0

C16_Witness ==
    /\ "Delete" \in failed
    /\ pc = "exited"
    /\ flags.o
    /\ metaOutcome = "ok"

\* records the generator has built or sent and the range loop has not received
Unretrieved == Len(ch) + (IF gpc = "select" THEN 1 ELSE 0)

\* C17 as stated: at most one record is built or sent and not yet received.
C17_BackpressureOne == Unretrieved <= 1

\* C17 as amended: at most two records are built or sent and not yet
\* received: at most one in ch and at most one built and waiting at the
\* select; the generator has never built more than two records beyond those
\* the loop has received.
C17_BackpressureTwo ==
    /\ Unretrieved <= 2
    /\ Len(ch) <= 1
    /\ (gpc \in {"loop", "select", "done"}) =>
          gi + (IF gpc = "select" THEN 1 ELSE 0) - (Len(emitted) - Len(ch)) <= 2

C17_Witness ==
    /\ Unretrieved = 2
    /\ pc = "write"
    /\ flags.i = 3
    /\ Len(emitted) = 2

TimesCalled(op) == Len(SelectSeq(ops, LAMBDA o : o = op))

ProvisioningFailed == failed \cap {"Metadata", "Delete", "Create"} # { }

\* C18: the streamer is opened and records are written only after NewClient
\* and one complete, successful provisioning sequence with all its waits; a
\* failed provisioning step is followed by no streamer and no write; the
\* fetch, the delete and the create are each called at most once.
C18_ProvisioningPrecedesStreaming ==
    /\ TimesCalled("Metadata") <= 1
    /\ TimesCalled("Delete") <= 1
    /\ TimesCalled("Create") <= 1
    /\ TimesCalled("NewStreamer") <= 1
    /\ ("NewStreamer" \in CallsMade \/ "Write" \in CallsMade) =>
          /\ ~ProvisioningFailed
          /\ \E steps \in {<< "Metadata" >>, CreateSteps, OverwriteSteps} :
                IsPrefix(<< "NewClient" >> \o steps \o << "NewStreamer" >>, ops)
    /\ ProvisioningFailed =>
          /\ "NewStreamer" \notin CallsMade
          /\ "Write" \notin CallsMade
          /\ (pc = "exited") => exitCode = ExitFailure

C18_Witness ==
    /\ "Write" \in CallsMade
    /\ ProvOps = OverwriteSteps
    /\ pc = "exited"

C19_Consumed ==
    Len(written) + (IF pc = "write" THEN 1 ELSE 0) + Len(ch) = Len(emitted)

\* C19: once ctx is cancelled a running generator gets to return and close
\* ch, also from a select blocked on a full channel; nothing is sent on ch
\* afterwards, the loop receives only records that were sent, and it ends
\* (ExecuteLegacyStream returns) once ch is closed.
C19_TerminationOnCancel ==
    /\ [] C19_Consumed
    /\ [][chClosed => emitted' = emitted]_vars
    /\ (ctxDone /\ gpc \in {"loop", "select"}) ~> chClosed
    /\ (ctxDone /\ chClosed) ~> (pc = "streamReturned")

C19_Witness ==
    /\ ctxDone
    /\ chClosed
    /\ pc = "streamReturned"
    /\ cancelAt = 1
    /\ Len(emitted) < flags.i
    /\ Len(written) = Len(emitted)

\* C20: a fetch error other than not found is returned with the fetch as the
\* only call made; createTable is set only by a not-found fetch or after the
\* delete of an existing table; a failed create is the last call of
\* CreateBigQueryTable, with no wait after it.
C20_FetchAndCreateErrors ==
    /\ (metaOutcome = "error") =>
          /\ ProvOps = << "Metadata" >>
          /\ err = "metadata error"
          /\ ~createTable
          /\ table = table0
          /\ pc \in {"createTableReturned", "exited"}
          /\ (pc = "exited") => exitCode = ExitFailure
    /\ createTable =>
          \/ metaOutcome = "notfound"
          \/ (metaOutcome = "ok" /\ flags.o /\ "Delete" \in CallsMade)
    /\ ("Create" \in failed) =>
          /\ ProvOps[Len(ProvOps)] = "Create"
          /\ err = "create error"
          /\ pc \in {"createTableReturned", "exited"}
          /\ (pc = "exited") => exitCode = ExitFailure

C20_Witness ==
    /\ metaOutcome = "error"
    /\ flags.o
    /\ table0 # NoTable
    /\ pc = "exited"

Successes == Len(SelectSeq(results, LAMBDA r : r))

\* C21: the records passed to streamer.Write are, in order, the first
\* records the generator sent, which are the records of index 0, 1, 2, ..
\* below flags.i: none skipped, repeated or reordered; count is the number
\* of Write calls that returned nil, so count <= records sent <= flags.i.
C21_ForwardingInvariant ==
    /\ IsPrefix(written, emitted)
    /\ InGenerationOrder(emitted)
    /\ Len(written) = Len(results)
    /\ count = Successes
    /\ count <= Len(emitted)
    /\ Len(emitted) <= flags.i

C21_Witness ==
    /\ pc = "streamReturned"
    /\ flags.i = 3
    /\ Len(emitted) = 3
    /\ Len(written) = 3
    /\ count = 2
    /\ ~results[3]

LoopEnded == pc \in {"deferClose", "streamReturned", "exited"}

C22_ClosedOnce ==
    /\ closes <= 1
    /\ chClosed <=> (closes = 1)
    /\ (gpc = "done") <=> chClosed
    /\ (gpc = "select") => ~chClosed

\* C22: when the generator goroutine returns, after its last iteration, with
\* no iteration at all or on cancellation, close(ch) has been called exactly
\* once, and only a step of the generator calls it; nothing is sent on ch
\* once it is closed; the range loop ends only on a closed and empty ch and
\* receives nothing after it has ended.
C22_ChannelSafety ==
    /\ [] C22_ClosedOnce
    /\ [][closes' # closes =>
             /\ gpc \in {"loop", "select"}
             /\ gpc' = "done"
             /\ pc' = pc]_vars
    /\ [][chClosed => (emitted' = emitted /\ Len(ch') <= Len(ch))]_vars
    /\ [][(pc = "range" /\ pc' = "deferClose") =>
             (chClosed /\ ch = << >>)]_vars
    /\ [][LoopEnded =>
             (data' = data /\ written' = written /\ count' = count)]_vars

C22_Witness ==
    /\ closes = 1
    /\ ctxDone
    /\ gpc = "done"
    /\ pc = "streamReturned"
    /\ err = Nil
    /\ Len(emitted) < flags.i
    /\ Len(ch) = 0

====
